---- MODULE Spec2Model ----
(***************************************************************************)
(* gabeda_backend, apps/analytics: the process_pipeline Celery task        *)
(* (tasks.py) with PipelineExecutionService.execute (services.py) and the  *)
(* ProcessingJob / ModelResult rows they write (models.py); CSV ingestion  *)
(* by process_csv_upload and DatasetGenerationService; and the validators  *)
(* of the run-request and company-configuration serializers                *)
(* (serializers.py).  Each part has a specification of its own over the    *)
(* same variables.                                                         *)
(*                                                                         *)
(* db_job is the persisted ProcessingJob row, job the in-memory instance   *)
(* held by the worker; save(update_fields=...) copies only the named       *)
(* fields from job to db_job.                                              *)
(***************************************************************************)
EXTENDS Integers, Sequences, FiniteSets, TLC

VARIABLES
    db_job,            \* the ProcessingJob row as stored
    models_to_execute, \* ProcessingJob.models_to_execute (set at creation)
    job,               \* the worker's in-memory ProcessingJob instance
    model_results,     \* the model_results table
    transactions,      \* number of Transaction rows of the job's upload
    pc,                \* position of the task or request being handled
    idx,               \* position of execute()'s for loop in the model list
    result,            \* the dict returned by execute() or process()
    retries,           \* self.request.retries
    log,               \* history: one entry per loop iteration of execute(),
                       \* or per call of process()
    cancel,            \* history: the external cancellation, if any
    faults,            \* number of infrastructure exceptions raised so far
    anomalies,         \* number of model executions that did not yield both tables
    run,               \* id of the ProcessingJob the worker in view is running
    parked,            \* a second worker's job row and locals, while not in view
    upload,            \* the DataUpload row
    csv,               \* the uploaded file: its columns and its data rows
    tx_table,          \* the Transaction rows of the upload, in insertion order
    request,           \* the payload handed to a serializer
    response,          \* what the serializer (and the view behind it) answered
    scheduled          \* history: the countdown of every retry scheduled

ingest == <<upload, csv, tx_table>>

api == <<request, response>>

vars == <<db_job, models_to_execute, job, model_results, transactions, pc,
          idx, result, retries, log, cancel, faults, anomalies, run, parked,
          ingest, api, scheduled>>

----------------------------------------------------------------------------
(* Bounds of the model *)

MaxRequested == 2
MaxTransactions == 1
MaxInfraFaults == 1
MaxAnomalies == 1
MaxAddLen == 9
MaxAddNames == 6
MaxTwoRequested == 1
MaxRows == 2
MaxListed == 3
MaxCsvFaults == 2

----------------------------------------------------------------------------
(* Catalog and field values *)

MODEL_NAMES ==
    << "transactions", "daily", "daily_hour", "weekly", "monthly",
       "product_daily", "product_month", "customer_daily", "customer_profile" >>

NULL == "NULL"

is_complete(j) == j.status \in {"completed", "failed", "cancelled"}

Range(s) == {s[i] : i \in 1..Len(s)}

----------------------------------------------------------------------------
(* int((len(models_completed) / len(models_to_execute)) * 100)             *)
(*                                                                         *)
(* Python's / on two ints is the correctly rounded IEEE-754 double         *)
(* quotient, * 100 is a double multiplication (round to nearest, ties to   *)
(* even) and int() truncates.  A double is kept as a 53-bit significand in *)
(* little-endian limbs of 13 bits, sig * 2^-(exp + 52).                    *)

Base == 2^13

RECURSIVE MulFrom(_, _, _, _)
MulFrom(d, m, i, c) ==
    IF i > Len(d) THEN <<>>
    ELSE LET t == d[i] * m + c
         IN  <<t % Base>> \o MulFrom(d, m, i + 1, t \div Base)

LimbMul(d, m) == MulFrom(d, m, 1, 0)

RECURSIVE DivFrom(_, _, _, _)
DivFrom(d, k, i, r) ==
    IF i = 0 THEN [q |-> <<>>, r |-> r]
    ELSE LET t == r * Base + d[i]
             rest == DivFrom(d, k, i - 1, t % k)
         IN  [q |-> Append(rest.q, t \div k), r |-> rest.r]

LimbDivMod(d, k) == DivFrom(d, k, Len(d), 0)

RECURSIVE AddFrom(_, _, _)
AddFrom(d, i, c) ==
    IF i > Len(d) THEN <<>>
    ELSE LET t == d[i] + c
         IN  <<t % Base>> \o AddFrom(d, i + 1, t \div Base)

LimbInc(d) == AddFrom(d, 1, 1)

RECURSIVE LimbShr(_, _)
LimbShr(d, t) ==
    IF t >= 13 THEN LimbShr(Tail(d) \o <<0>>, t - 13)
    ELSE IF t = 0 THEN d
    ELSE LimbDivMod(d, 2^t).q

LimbToInt(d) == d[1] + Base * d[2]

\* round to nearest, ties to even, of quotient q with remainder r out of k
RoundHalfEven(q, r, k) ==
    IF 2 * r > k \/ (2 * r = k /\ q[1] % 2 = 1) THEN LimbInc(q) ELSE q

RECURSIVE UpShift(_, _, _)
UpShift(k, n, e) == IF k * 2^e >= n THEN e ELSE UpShift(k, n, e + 1)

RECURSIVE DownShift(_, _, _)
DownShift(k, n, f) == IF n * 2^(f + 1) > k THEN f ELSE DownShift(k, n, f + 1)

\* the double k / n, for integers k >= 1, n >= 1
FloatDiv(k, n) ==
    LET e == UpShift(k, n, 0)
        f == DownShift(k, n, 0)
        a == k * 2^e
        d == n * 2^f
        dividend == <<0, 0, 0, 0, a % Base, a \div Base, 0>>
        qr == LimbDivMod(dividend, d)
    IN  [sig |-> RoundHalfEven(qr.q, qr.r, d), exp |-> e - f]

\* the double x * 100.0
FloatMul100(x) ==
    LET p == LimbMul(x.sig, 100)
        s == IF p[5] + Base * p[6] >= 2^7 THEN 7 ELSE 6
        qr == LimbDivMod(p, 2^s)
    IN  [sig |-> RoundHalfEven(qr.q, qr.r, 2^s), exp |-> x.exp - s]

\* int(x) for a double x >= 0
FloatToInt(x) == LimbToInt(LimbShr(x.sig, x.exp + 52))

\* variants of the progress computation
ProgressRounded(k, n) == (200 * k + n) \div (2 * n)

ProgressSwapped(k, n) == (100 * n) \div k

ProgressOf(k, n) == FloatToInt(FloatMul100(FloatDiv(k, n)))

----------------------------------------------------------------------------
(* ProcessingJob *)

NewJob ==
    [ status           |-> "queued",
      progress         |-> 0,
      current_model    |-> NULL,
      models_completed |-> <<>>,
      error_message    |-> "",
      error_traceback  |-> "",
      started_at       |-> NULL,
      completed_at     |-> NULL ]

\* the catalog names requested in the runs explored: a dependent pair (weekly
\* on daily) and a model independent of both
Requestable == {"transactions", "daily", "weekly"}

RECURSIVE SeqsOfLen(_, _)
SeqsOfLen(S, n) ==
    IF n = 0 THEN {<<>>}
    ELSE {Append(s, x) : s \in SeqsOfLen(S, n - 1), x \in S}

BoundedSeqs(S, n) == UNION {SeqsOfLen(S, m) : m \in 1..n}

NoCancel == [requested |-> FALSE, between |-> FALSE, logLen |-> 0]

NoResult == [success |-> FALSE, error |-> "", traceback |-> ""]

Init ==
    /\ db_job = NewJob
    /\ models_to_execute \in BoundedSeqs(Requestable, MaxRequested)
    /\ job = NewJob
    /\ model_results = {}
    /\ transactions \in {0, MaxTransactions}
    /\ pc = "queued"
    /\ idx = 0
    /\ result = NoResult
    /\ retries = 0
    /\ log = <<>>
    /\ cancel = NoCancel
    /\ faults = 0
    /\ anomalies = 0
    /\ scheduled = <<>>
    /\ run = 1
    /\ parked = NULL
    /\ upload = NULL
    /\ csv = NULL
    /\ tx_table = <<>>
    /\ request = NULL
    /\ response = NULL

----------------------------------------------------------------------------
(* Helpers of the task and of execute() *)

\* self.job.models_to_execute or self.MODEL_NAMES
ModelsToRun(requested) == IF requested = <<>> THEN MODEL_NAMES ELSE requested

\* ModelResult.objects.create under unique_together (job, model_name,
\* result_type): an insert that repeats a key raises IntegrityError and
\* leaves the table as it was
\* variant: update_or_create instead of create
CreateOrReplace(rows, row) ==
    [rows |-> {r \in rows : \/ r.job # row.job
                            \/ r.model_name # row.model_name
                            \/ r.result_type # row.result_type}
              \cup {row},
     raised |-> FALSE]

\* variant: uniqueness on (model_name, result_type) alone
CreateAcrossJobs(rows, row) ==
    IF \E r \in rows : r.model_name = row.model_name /\ r.result_type = row.result_type
    THEN [rows |-> rows, raised |-> TRUE]
    ELSE [rows |-> rows \cup {row}, raised |-> FALSE]

Create(rows, row) ==
    IF \E r \in rows : /\ r.job = row.job
                       /\ r.model_name = row.model_name
                       /\ r.result_type = row.result_type
    THEN [rows |-> rows, raised |-> TRUE]
    ELSE [rows |-> rows \cup {row}, raised |-> FALSE]

\* variant: the name is appended whether or not the list holds it already
AppendAlways(j, model_name, n) ==
    LET appended == [j EXCEPT !.models_completed = Append(@, model_name)]
    IN  IF n = 0
        THEN [job |-> appended, raised |-> TRUE, saved |-> FALSE]
        ELSE [job |-> [appended EXCEPT
                         !.progress = ProgressOf(Len(appended.models_completed), n)],
              raised |-> FALSE, saved |-> TRUE]

\* ProcessingJob.add_completed_model on instance j with n requested models:
\* the instance after the call, whether it raised (ZeroDivisionError, after
\* the append) and whether save() was reached
add_completed_model(j, model_name, n) ==
    IF model_name \in Range(j.models_completed)
    THEN [job |-> j, raised |-> FALSE, saved |-> FALSE]
    ELSE LET appended == [j EXCEPT !.models_completed = Append(@, model_name)]
         IN  IF n = 0
             THEN [job |-> appended, raised |-> TRUE, saved |-> FALSE]
             ELSE [job |-> [appended EXCEPT
                              !.progress = ProgressOf(Len(appended.models_completed), n)],
                   raised |-> FALSE, saved |-> TRUE]

\* save(update_fields = fields): the row after copying the fields of j
Save(row, j, fields) ==
    [f \in DOMAIN row |-> IF f \in fields THEN j[f] ELSE row[f]]

\* _load_transactions_into_context raises ValueError when df.empty
\* variant: an empty frame is passed on
LoadNeverRaises(count) == count < 0

LoadRaises(count) == count = 0

\* the loop position after the per-model except clause: continue
\* variant: break instead of continue
AbortLoop(i, n) == n + 1

AfterModelError(i, n) == i + 1

\* what execute_model may do for one model: raise, or return an output whose
\* filters and attrs tables are each present or None
Outputs == [filters : BOOLEAN, attrs : BOOLEAN]

IsAnomaly(raises, out) == raises \/ ~out.filters \/ ~out.attrs

CanFault == faults < MaxInfraFaults

----------------------------------------------------------------------------
(* process_pipeline *)

\* the task starts (first delivery or retry): load the job, mark it running,
\* construct the service; the constructor's query may raise
Start ==
    /\ pc = "queued"
    /\ LET loaded == [db_job EXCEPT !.status = "running", !.started_at = "set"]
       IN  /\ job' = loaded
           /\ db_job' = Save(db_job, loaded, {"status", "started_at"})
    /\ \/ /\ pc' = "setup"
          /\ UNCHANGED faults
       \/ /\ CanFault
          /\ pc' = "handler"
          /\ faults' = faults + 1
    /\ UNCHANGED <<models_to_execute, model_results, transactions, idx, result,
                   retries, log, cancel, anomalies>>
    /\ UNCHANGED <<run, parked, ingest, api, scheduled>>

\* execute(), up to the loop: configuration, context, loading of transactions
Setup ==
    /\ pc = "setup"
    /\ IF LoadRaises(transactions)
       THEN /\ result' = [success |-> FALSE, error |-> "No transactions found",
                          traceback |-> "traceback"]
            /\ pc' = "finish"
            /\ UNCHANGED idx
       ELSE /\ idx' = 1
            /\ pc' = "loop"
            /\ UNCHANGED result
    /\ UNCHANGED <<db_job, models_to_execute, job, model_results, transactions,
                   retries, log, cancel, faults, anomalies>>
    /\ UNCHANGED <<run, parked, ingest, api, scheduled>>

\* one iteration of the loop, for the model at position idx
ExecuteModel ==
    /\ pc = "loop"
    /\ idx <= Len(ModelsToRun(models_to_execute))
    /\ LET models == ModelsToRun(models_to_execute)
           model_name == models[idx]
           current == [job EXCEPT !.current_model = model_name]
           made == Len(log) + 1
           entry(outcome, after) ==
               [model |-> model_name, outcome |-> outcome, attempt |-> retries,
                before |-> job.models_completed, after |-> after]
       IN
       \/ \* save(update_fields=['current_model']) raises: outer except
          /\ CanFault
          /\ faults' = faults + 1
          /\ job' = current
          /\ result' = [success |-> FALSE, error |-> "database error",
                        traceback |-> "traceback"]
          /\ pc' = "finish"
          /\ UNCHANGED <<db_job, model_results, idx, log, anomalies>>
       \/ \* execute_model raises: logged, continue
          /\ anomalies < MaxAnomalies
          /\ anomalies' = anomalies + 1
          /\ job' = current
          /\ db_job' = Save(db_job, current, {"current_model"})
          /\ log' = Append(log, entry("raise", current.models_completed))
          /\ idx' = AfterModelError(idx, Len(models))
          /\ UNCHANGED <<model_results, result, pc, faults>>
       \/ \* execute_model returns an output
          \E out \in Outputs :
             LET c1 == IF out.filters
                       THEN Create(model_results,
                                   [job |-> run, model_name |-> model_name,
                                    result_type |-> "filters", made |-> made])
                       ELSE [rows |-> model_results, raised |-> FALSE]
                 c2 == IF ~c1.raised /\ out.attrs
                       THEN Create(c1.rows,
                                   [job |-> run, model_name |-> model_name,
                                    result_type |-> "attrs", made |-> made])
                       ELSE c1
                 added == add_completed_model(current, model_name,
                                              Len(models_to_execute))
             IN  /\ IF IsAnomaly(FALSE, out)
                    THEN anomalies < MaxAnomalies /\ anomalies' = anomalies + 1
                    ELSE UNCHANGED anomalies
                 /\ model_results' = c2.rows
                 /\ IF c2.raised
                    THEN /\ job' = current
                         /\ db_job' = Save(db_job, current, {"current_model"})
                         /\ log' = Append(log, entry("integrity", current.models_completed))
                         /\ idx' = AfterModelError(idx, Len(models))
                    ELSE /\ job' = added.job
                         /\ db_job' = Save(db_job, added.job,
                                IF added.saved
                                THEN {"current_model", "models_completed", "progress"}
                                ELSE {"current_model"})
                         /\ log' = Append(log,
                                entry(IF added.raised THEN "zero_division" ELSE "ok",
                                      added.job.models_completed))
                         /\ idx' = IF added.raised
                                   THEN AfterModelError(idx, Len(models))
                                   ELSE idx + 1
                 /\ UNCHANGED <<result, pc, faults>>
    /\ UNCHANGED <<models_to_execute, transactions, retries, cancel>>
    /\ UNCHANGED <<run, parked, ingest, api, scheduled>>

\* the loop is exhausted: execute() returns success
ExecuteReturn ==
    /\ pc = "loop"
    /\ idx > Len(ModelsToRun(models_to_execute))
    /\ result' = [success |-> TRUE, error |-> "", traceback |-> ""]
    /\ pc' = "finish"
    /\ UNCHANGED <<db_job, models_to_execute, job, model_results, transactions,
                   idx, retries, log, cancel, faults, anomalies>>
    /\ UNCHANGED <<run, parked, ingest, api, scheduled>>

\* the task records the outcome of execute(); its save() may raise
Finish ==
    /\ pc = "finish"
    /\ LET final == IF result.success
                    THEN [job EXCEPT !.status = "completed",
                                     !.completed_at = "set",
                                     !.current_model = NULL]
                    ELSE [job EXCEPT !.status = "failed",
                                     !.error_message = result.error,
                                     !.error_traceback = result.traceback,
                                     !.completed_at = "set"]
       IN  /\ job' = final
           /\ \/ /\ db_job' = Save(db_job, final,
                        {"status", "completed_at", "current_model",
                         "error_message", "error_traceback"})
                 /\ pc' = "returned"
                 /\ UNCHANGED faults
              \/ /\ CanFault
                 /\ faults' = faults + 1
                 /\ pc' = "handler"
                 /\ UNCHANGED db_job
    /\ UNCHANGED <<models_to_execute, model_results, transactions, idx, result,
                   retries, log, cancel, anomalies>>
    /\ UNCHANGED <<run, parked, ingest, api, scheduled>>

\* self.request.retries < 1
MayRetry(n) == n < 1

\* except Exception: reload the job, mark it failed (this save may itself
\* fail, which is only logged), then retry once or re-raise
Handler ==
    /\ pc = "handler"
    /\ LET failed == [db_job EXCEPT !.status = "failed",
                                    !.error_message = "Pipeline execution error",
                                    !.error_traceback = "traceback",
                                    !.completed_at = "set"]
       IN  \/ /\ job' = failed
              /\ db_job' = Save(db_job, failed,
                     {"status", "error_message", "error_traceback", "completed_at"})
              /\ UNCHANGED faults
           \/ /\ CanFault
              /\ faults' = faults + 1
              /\ UNCHANGED <<job, db_job>>
    /\ IF MayRetry(retries)
       THEN /\ retries' = retries + 1
            /\ scheduled' = Append(scheduled, 60)
            /\ pc' = "queued"
       ELSE /\ UNCHANGED <<retries, scheduled>>
            /\ pc' = "raised"
    /\ UNCHANGED <<models_to_execute, model_results, transactions, idx, result,
                   log, cancel, anomalies>>
    /\ UNCHANGED <<run, parked, ingest, api>>

----------------------------------------------------------------------------
(* The admin form of ProcessingJob leaves status editable: an operator      *)
(* marks a running job cancelled.                                           *)

Cancel ==
    /\ db_job.status = "running"
    /\ ~cancel.requested
    /\ db_job' = [db_job EXCEPT !.status = "cancelled"]
    /\ cancel' = [requested |-> TRUE,
                  between |-> pc = "loop" /\ idx > 1
                              /\ idx <= Len(ModelsToRun(models_to_execute)),
                  logLen |-> Len(log)]
    /\ UNCHANGED <<models_to_execute, job, model_results, transactions, pc, idx,
                   result, retries, log, faults, anomalies>>
    /\ UNCHANGED <<run, parked, ingest, api, scheduled>>

Next ==
    \/ Start
    \/ Setup
    \/ ExecuteModel
    \/ ExecuteReturn
    \/ Finish
    \/ Handler
    \/ Cancel

Spec == Init /\ [][Next]_vars

----------------------------------------------------------------------------
(* add_completed_model called directly on a running job, as the unit tests *)
(* do: the requested list has 1..MaxAddLen entries                          *)

AddList(n) == [i \in 1..n |-> MODEL_NAMES[((i - 1) % Len(MODEL_NAMES)) + 1]]

AddNames == {MODEL_NAMES[i] : i \in 1..MaxAddNames}

InitAdd ==
    /\ db_job = [NewJob EXCEPT !.status = "running"]
    /\ job = [NewJob EXCEPT !.status = "running"]
    /\ models_to_execute \in {AddList(n) : n \in 1..MaxAddLen}
    /\ model_results = {}
    /\ transactions = 0
    /\ pc = "method"
    /\ idx = 0
    /\ result = NoResult
    /\ retries = 0
    /\ log = <<>>
    /\ cancel = NoCancel
    /\ faults = 0
    /\ anomalies = 0
    /\ scheduled = <<>>
    /\ run = 1
    /\ parked = NULL
    /\ upload = NULL
    /\ csv = NULL
    /\ tx_table = <<>>
    /\ request = NULL
    /\ response = NULL

AddCompleted ==
    /\ pc = "method"
    /\ \E model_name \in AddNames :
          LET added == add_completed_model(job, model_name, Len(models_to_execute))
          IN  /\ job' = added.job
              /\ db_job' = IF added.saved
                           THEN Save(db_job, added.job, {"models_completed", "progress"})
                           ELSE db_job
    /\ UNCHANGED <<models_to_execute, model_results, transactions, pc, idx,
                   result, retries, log, cancel, faults, anomalies>>
    /\ UNCHANGED <<run, parked, ingest, api, scheduled>>

NextAdd == AddCompleted

SpecAdd == InitAdd /\ [][NextAdd]_vars

----------------------------------------------------------------------------
(* Two process_pipeline tasks over the same upload, each on a worker of its *)
(* own.  The worker in view owns the task variables; the other worker's job *)
(* row and locals are parked.  The model_results and Transaction tables are *)
(* the state the two share.  Both runs request the same models, the case   *)
(* in which their ModelResult keys coincide but for the job.                *)

TwoRunNames == {"transactions", "daily"}

Parked(id, row, requested, j, at, i, res, n, entries) ==
    [run |-> id, db_job |-> row, models_to_execute |-> requested, job |-> j,
     pc |-> at, idx |-> i, result |-> res, retries |-> n, log |-> entries]

InitTwoRuns ==
    /\ db_job = NewJob
    /\ models_to_execute \in BoundedSeqs(TwoRunNames, MaxTwoRequested)
    /\ job = NewJob
    /\ model_results = {}
    /\ transactions \in {0, MaxTransactions}
    /\ pc = "queued"
    /\ idx = 0
    /\ result = NoResult
    /\ retries = 0
    /\ log = <<>>
    /\ cancel = NoCancel
    /\ faults = 0
    /\ anomalies = 0
    /\ scheduled = <<>>
    /\ run = 1
    /\ parked = Parked(2, NewJob, models_to_execute, NewJob, "queued", 0,
                       NoResult, 0, <<>>)
    /\ upload = NULL
    /\ csv = NULL
    /\ tx_table = <<>>
    /\ request = NULL
    /\ response = NULL

\* the scheduler turns to the other worker
Switch ==
    /\ parked' = Parked(run, db_job, models_to_execute, job, pc, idx, result,
                        retries, log)
    /\ run' = parked.run
    /\ db_job' = parked.db_job
    /\ models_to_execute' = parked.models_to_execute
    /\ job' = parked.job
    /\ pc' = parked.pc
    /\ idx' = parked.idx
    /\ result' = parked.result
    /\ retries' = parked.retries
    /\ log' = parked.log
    /\ UNCHANGED <<model_results, transactions, cancel, faults, anomalies,
                   ingest, api, scheduled>>

NextTwoRuns ==
    \/ Start
    \/ Setup
    \/ ExecuteModel
    \/ ExecuteReturn
    \/ Finish
    \/ Handler
    \/ Switch

SpecTwoRuns == InitTwoRuns /\ [][NextTwoRuns]_vars

----------------------------------------------------------------------------
(* CSV ingestion: DatasetGenerationService (apps/analytics/services.py)    *)
(* and the process_csv_upload task around it (apps/analytics/tasks.py).    *)
(* Amounts and quantities are counted in hundredths, the precision of the  *)
(* Transaction columns.                                                    *)

\* the source columns process() requires, under the default column_config
RequiredCols == <<"fecha", "producto", "glosa", "total", "cantidad", "trans_id">>

\* [col for col in required_cols if col not in df.columns]
\* variant: only the first missing column is reported
FirstMissingCol(columns) ==
    LET missing == SelectSeq(RequiredCols, LAMBDA c : c \notin columns)
    IN  IF missing = <<>> THEN <<>> ELSE <<missing[1]>>

MissingCols(columns) == SelectSeq(RequiredCols, LAMBDA c : c \notin columns)

\* str() of a transaction id read as an integer
Str(n) == <<"0", "1", "2", "3", "4", "5", "6", "7", "8", "9">>[n + 1]

\* a float handed to a DecimalField(decimal_places=2): the quotient num / den
\* (den > 0, num >= 0) as stored, in hundredths, rounded half to even.  For
\* the amounts explored the double quotient is within 2^-53 of num / den and
\* the 12-digit conversion Django applies first does not move it across a
\* rounding boundary.
Quantize(num, den) ==
    LET q == (100 * num) \div den
        r == (100 * num) % den
    IN  IF 2 * r > den \/ (2 * r = den /\ q % 2 = 1) THEN q + 1 ELSE q

\* total / quantity: ZeroDivisionError when quantity is 0
Divide(total, quantity) ==
    IF quantity = 0
    THEN [raised |-> TRUE, value |-> 0]
    ELSE [raised |-> FALSE, value |-> Quantize(total, quantity)]

\* unit_price = total / quantity if quantity > 0 else 0
\* variant: the guard is quantity >= 0
UnitPriceUnguarded(total, quantity) ==
    IF quantity >= 0 THEN Divide(total, quantity)
    ELSE [raised |-> FALSE, value |-> 0]

UnitPrice(total, quantity) ==
    IF quantity > 0 THEN Divide(total, quantity)
    ELSE [raised |-> FALSE, value |-> 0]

\* the Transaction object built from row i of the frame by call number call
TransactionOf(rows, i, call) ==
    [transaction_id |-> Str(rows[i].trans_id),
     quantity       |-> rows[i].cantidad,
     total          |-> rows[i].total,
     unit_price     |-> UnitPrice(rows[i].total, rows[i].cantidad).value,
     src            |-> i,
     call           |-> call]

\* one INSERT of bulk_create(ignore_conflicts=True) under unique_together
\* (company, transaction_id, upload)
\* variant: a conflicting row replaces the stored one (update_conflicts)
InsertOrUpdate(table, obj) ==
    IF \E k \in DOMAIN table : table[k].transaction_id = obj.transaction_id
    THEN [k \in DOMAIN table |->
             IF table[k].transaction_id = obj.transaction_id THEN obj ELSE table[k]]
    ELSE Append(table, obj)

InsertIgnore(table, obj) ==
    IF \E k \in DOMAIN table : table[k].transaction_id = obj.transaction_id
    THEN table
    ELSE Append(table, obj)

\* _save_transactions: the table after the objects of rows i.. are inserted
RECURSIVE BulkCreate(_, _, _, _)
BulkCreate(table, rows, i, call) ==
    IF i > Len(rows) THEN table
    ELSE BulkCreate(InsertIgnore(table, TransactionOf(rows, i, call)), rows,
                    i + 1, call)

\* validate_csv_columns: without a CompanyConfig every file passes; with one,
\* every source column of its data_schema must be in the file
\* sorted(missing_columns)
Sorted(names) ==
    SelectSeq(<<"cantidad", "fecha", "glosa", "producto", "total", "trans_id">>,
              LAMBDA c : c \in names)

validate_csv_columns(schema, columns) ==
    IF ~schema.exists THEN [ok |-> TRUE, names |-> <<>>]
    ELSE [ok |-> schema.columns \subseteq columns,
          names |-> Sorted(schema.columns \ columns)]

Error(text, names) == [text |-> text, names |-> names]

NoError == Error("", <<>>)

\* the tracking job process_csv_upload creates, before its status is given;
\* with status NULL, the row that does not exist yet
CsvJob == [NewJob EXCEPT !.status = NULL, !.error_message = NoError]

\* an infrastructure exception may still be raised in the ingestion task
CanFaultCsv == faults < MaxCsvFaults

\* a result with success False is returned by the task, like any other
\* variant: it is raised into the except clause
RaiseOnFailure(res) == IF res.success THEN "returned" ELSE "handler"

AfterResult(res) == "returned"

\* the inputs explored
TransIds == {1, 2}

Quantities == {-100, 0, 100, 300}

Totals == {7550}

CsvRows == [trans_id : TransIds, cantidad : Quantities, total : Totals]

SampleRows == <<[trans_id |-> 1, cantidad |-> 100, total |-> 7550]>>

CsvFiles ==
    {[columns |-> Range(RequiredCols), rows |-> rows] :
        rows \in {<<>>} \cup BoundedSeqs(CsvRows, MaxRows)}
    \cup {[columns |-> columns, rows |-> SampleRows] :
             columns \in SUBSET Range(RequiredCols) \ {Range(RequiredCols)}}

Schemas ==
    {[exists |-> FALSE, columns |-> {}],
     [exists |-> TRUE, columns |-> Range(RequiredCols)]}

InitUpload ==
    /\ upload \in {[status |-> status, error_message |-> NoError,
                    row_count |-> 0, schema |-> schema] :
                      status \in {"pending", NULL}, schema \in Schemas}
    /\ csv \in CsvFiles
    /\ tx_table = <<>>
    /\ transactions = 0
    /\ db_job = CsvJob
    /\ job = CsvJob
    /\ models_to_execute = <<"csv_processing">>
    /\ model_results = {}
    /\ pc = "queued"
    /\ idx = 0
    /\ result = [success |-> FALSE, error |-> NoError]
    /\ retries = 0
    /\ log = <<>>
    /\ cancel = NoCancel
    /\ faults = 0
    /\ anomalies = 0
    /\ scheduled = <<>>
    /\ run = 1
    /\ parked = NULL
    /\ request = NULL
    /\ response = NULL

\* process_csv_upload starts (first delivery or retry): validate the columns
\* against the CompanyConfig, create the tracking job, mark the upload
\* processing; a save after the job was created may raise
CsvStart ==
    /\ pc = "queued"
    /\ upload.status # NULL
    /\ LET valid == validate_csv_columns(upload.schema, csv.columns)
           error == Error("CSV file is missing required columns", valid.names)
           failed == [CsvJob EXCEPT !.status = "failed",
                                    !.error_message = error,
                                    !.started_at = "set",
                                    !.completed_at = "set"]
           running == [CsvJob EXCEPT !.status = "running",
                                     !.current_model = "csv_processing",
                                     !.started_at = "set"]
       IN  IF ~valid.ok
           THEN /\ upload' = [upload EXCEPT !.status = "failed",
                                            !.error_message = error]
                /\ db_job' = failed
                /\ job' = failed
                /\ result' = [success |-> FALSE, error |-> error]
                /\ pc' = "returned"
                /\ UNCHANGED faults
           ELSE /\ db_job' = running
                /\ job' = running
                /\ UNCHANGED result
                /\ \/ /\ upload' = [upload EXCEPT !.status = "processing"]
                      /\ pc' = "process"
                      /\ UNCHANGED faults
                   \/ /\ CanFaultCsv
                      /\ faults' = faults + 1
                      /\ pc' = "handler"
                      /\ UNCHANGED upload
    /\ UNCHANGED <<models_to_execute, model_results, transactions, idx,
                   retries, log, cancel, anomalies>>
    /\ UNCHANGED <<run, parked, csv, tx_table, api, scheduled>>

\* DatasetGenerationService.process(): the five steps and the except clause
\* around them.  The file may be unreadable, and the analytics steps after
\* the transactions were saved may raise.
Process ==
    /\ pc = "process"
    /\ LET call == Len(log) + 1
           missing == MissingCols(csv.columns)
           raises == \E i \in DOMAIN csv.rows :
                        UnitPrice(csv.rows[i].total, csv.rows[i].cantidad).raised
           saved == BulkCreate(tx_table, csv.rows, 1, call)
           fail(error, table, step) ==
               /\ upload' = [upload EXCEPT !.status = "failed",
                                           !.error_message = error]
               /\ result' = [success |-> FALSE, error |-> error]
               /\ tx_table' = table
               /\ log' = Append(log, [attempt |-> retries, failed_at |-> step])
       IN  /\ \/ /\ CanFaultCsv
                 /\ faults' = faults + 1
                 /\ fail(Error("CSV file not found", <<>>), tx_table, "load")
              \/ /\ missing # <<>>
                 /\ fail(Error("Missing required columns", missing), tx_table,
                         "columns")
                 /\ UNCHANGED faults
              \/ /\ missing = <<>>
                 /\ raises
                 /\ fail(Error("float division by zero", <<>>), tx_table, "rows")
                 /\ UNCHANGED faults
              \/ /\ missing = <<>>
                 /\ ~raises
                 /\ CanFaultCsv
                 /\ faults' = faults + 1
                 /\ fail(Error("Pipeline error", <<>>), saved, "analytics")
              \/ /\ missing = <<>>
                 /\ ~raises
                 /\ upload' = [upload EXCEPT !.status = "completed",
                                             !.row_count = Len(csv.rows)]
                 /\ result' = [success |-> TRUE, error |-> NoError,
                               row_count |-> Len(csv.rows),
                               transactions_created |-> Len(csv.rows)]
                 /\ tx_table' = saved
                 /\ log' = Append(log, [attempt |-> retries, failed_at |-> NULL])
                 /\ UNCHANGED faults
           /\ transactions' = Len(tx_table')
    /\ pc' = "finish"
    /\ UNCHANGED <<db_job, models_to_execute, job, model_results, idx, retries,
                   cancel, anomalies>>
    /\ UNCHANGED <<run, parked, csv, api, scheduled>>

\* the task records the outcome of process() on the job and on the upload;
\* the upload's save may raise
CsvFinish ==
    /\ pc = "finish"
    /\ LET final == IF result.success
                    THEN [job EXCEPT !.status = "completed",
                                     !.completed_at = "set",
                                     !.progress = 100,
                                     !.models_completed = <<"csv_processing">>,
                                     !.current_model = NULL]
                    ELSE [job EXCEPT !.status = "failed",
                                     !.completed_at = "set",
                                     !.error_message = result.error,
                                     !.current_model = NULL]
       IN  /\ job' = final
           /\ db_job' = Save(db_job, final,
                             IF result.success
                             THEN {"status", "completed_at", "progress",
                                   "models_completed", "current_model"}
                             ELSE {"status", "completed_at", "error_message",
                                   "current_model"})
    /\ \/ /\ upload' = IF result.success
                       THEN [upload EXCEPT !.status = "completed"]
                       ELSE [upload EXCEPT !.status = "failed",
                                           !.error_message = result.error]
          /\ pc' = AfterResult(result)
          /\ UNCHANGED faults
       \/ /\ CanFaultCsv
          /\ faults' = faults + 1
          /\ pc' = "handler"
          /\ UNCHANGED upload
    /\ UNCHANGED <<models_to_execute, model_results, transactions, idx, result,
                   retries, log, cancel, anomalies>>
    /\ UNCHANGED <<run, parked, csv, tx_table, api, scheduled>>

\* @shared_task(bind=True, max_retries=3)
CsvMaxRetries == 3

\* countdown=2 ** (self.request.retries * 2)
Countdown(n) == 2 ^ (n * 2)

\* except Exception: mark the upload and the job failed (a failure of these
\* saves is only logged), then self.retry, which re-raises once the retries
\* are used up
CsvHandler ==
    /\ pc = "handler"
    /\ LET error == Error("Processing error", <<>>)
           failed == [job EXCEPT !.status = "failed",
                                 !.completed_at = "set",
                                 !.error_message = error,
                                 !.error_traceback = "traceback"]
       IN  \/ /\ upload' = [upload EXCEPT !.status = "failed",
                                          !.error_message = error]
              /\ job' = failed
              /\ db_job' = Save(db_job, failed,
                     {"status", "completed_at", "error_message", "error_traceback"})
              /\ UNCHANGED faults
           \/ /\ CanFaultCsv
              /\ faults' = faults + 1
              /\ UNCHANGED <<upload, job, db_job>>
           \/ /\ CanFaultCsv
              /\ faults' = faults + 1
              /\ upload' = [upload EXCEPT !.status = "failed",
                                          !.error_message = error]
              /\ job' = failed
              /\ UNCHANGED db_job
    /\ IF retries < CsvMaxRetries
       THEN /\ retries' = retries + 1
            /\ scheduled' = Append(scheduled, Countdown(retries))
            /\ pc' = "queued"
       ELSE /\ UNCHANGED <<retries, scheduled>>
            /\ pc' = "raised"
    /\ UNCHANGED <<models_to_execute, model_results, transactions, idx, result,
                   log, cancel, anomalies>>
    /\ UNCHANGED <<run, parked, csv, tx_table, api>>

\* the task is delivered for an id that has no DataUpload row (status NULL):
\* DataUpload.DoesNotExist is re-raised as a plain exception, outside the
\* except clause that retries
CsvNotFound ==
    /\ pc = "queued"
    /\ upload.status = NULL
    /\ pc' = "raised"
    /\ UNCHANGED <<db_job, models_to_execute, job, model_results, transactions,
                   idx, result, retries, log, cancel, faults, anomalies>>
    /\ UNCHANGED <<run, parked, ingest, api, scheduled>>

NextUpload ==
    \/ CsvStart
    \/ CsvNotFound
    \/ Process
    \/ CsvFinish
    \/ CsvHandler

SpecUpload == InitUpload /\ [][NextUpload]_vars

----------------------------------------------------------------------------
(* A run request: ProcessingJobCreateSerializer                            *)
(* (apps/analytics/serializers.py) and the create_job view behind it       *)

\* the serializer's own list of valid model names
valid_models ==
    << "transactions", "daily", "daily_hour", "weekly", "monthly",
       "product_daily", "product_month", "customer_daily", "customer_profile" >>

\* validate_upload_id against the DataUpload row stored
\* variant: the status of the upload is not looked at
UploadExists(value, row) ==
    IF value # row.id THEN [ok |-> FALSE, error |-> "Upload not found."]
    ELSE [ok |-> TRUE, error |-> ""]

validate_upload_id(value, row) ==
    IF value # row.id THEN [ok |-> FALSE, error |-> "Upload not found."]
    ELSE IF row.status # "completed"
    THEN [ok |-> FALSE, error |-> "Upload must be in 'completed' status."]
    ELSE [ok |-> TRUE, error |-> ""]

\* validate_models_to_execute: the validated list, or the invalid names
\* variant: the error names the first invalid name only
FirstInvalidModel(value) ==
    LET invalid_models == SelectSeq(value, LAMBDA m : m \notin Range(valid_models))
    IN  IF value = <<>>
        THEN [ok |-> TRUE, value |-> valid_models, invalid |-> <<>>]
        ELSE IF invalid_models # <<>>
        THEN [ok |-> FALSE, value |-> <<>>, invalid |-> <<invalid_models[1]>>]
        ELSE [ok |-> TRUE, value |-> value, invalid |-> <<>>]

validate_models_to_execute(value) ==
    LET invalid_models == SelectSeq(value, LAMBDA m : m \notin Range(valid_models))
    IN  IF value = <<>>
        THEN [ok |-> TRUE, value |-> valid_models, invalid |-> <<>>]
        ELSE IF invalid_models # <<>>
        THEN [ok |-> FALSE, value |-> <<>>, invalid |-> invalid_models]
        ELSE [ok |-> TRUE, value |-> value, invalid |-> <<>>]

\* no ProcessingJob row yet
NoJob == [NewJob EXCEPT !.status = NULL]

NotValidated == [ok |-> TRUE, value |-> <<>>, invalid |-> <<>>]

NoResponse == [code |-> 0, upload_id |-> [ok |-> TRUE, error |-> ""],
               models_to_execute |-> NotValidated]

\* the names a request may list: catalog names and names outside the catalog
RequestNames == {"daily", "weekly", "invalid_model", "fake_model"}

UPLOAD_STATUS == {"pending", "validating", "processing", "completed", "failed"}

InitRequest ==
    /\ upload \in [id : {"upload-1"}, status : UPLOAD_STATUS]
    /\ request \in [upload_id : {"upload-1", "upload-2"},
                    given : BOOLEAN,
                    models_to_execute :
                        {<<>>} \cup BoundedSeqs(RequestNames, MaxListed)]
    /\ request.given \/ request.models_to_execute = <<>>
    /\ response = NoResponse
    /\ db_job = NoJob
    /\ job = NoJob
    /\ models_to_execute = <<>>
    /\ model_results = {}
    /\ transactions = 0
    /\ pc = "request"
    /\ idx = 0
    /\ result = NoResult
    /\ retries = 0
    /\ log = <<>>
    /\ cancel = NoCancel
    /\ faults = 0
    /\ anomalies = 0
    /\ scheduled = <<>>
    /\ run = 1
    /\ parked = NULL
    /\ csv = NULL
    /\ tx_table = <<>>

\* POST create_job: every field validator runs (models_to_execute only when
\* the field was sent); any error answers 400, otherwise a queued job is
\* created whose list is the validated one, or the field's default when the
\* field was not sent
CreateJob ==
    /\ pc = "request"
    /\ LET id == validate_upload_id(request.upload_id, upload)
           models == IF request.given
                     THEN validate_models_to_execute(request.models_to_execute)
                     ELSE NotValidated
       IN  IF id.ok /\ models.ok
           THEN /\ response' = [code |-> 201, upload_id |-> id,
                                models_to_execute |-> models]
                /\ db_job' = NewJob
                /\ models_to_execute' = models.value
           ELSE /\ response' = [code |-> 400, upload_id |-> id,
                                models_to_execute |-> models]
                /\ UNCHANGED <<db_job, models_to_execute>>
    /\ pc' = "responded"
    /\ UNCHANGED <<job, model_results, transactions, idx, result, retries, log,
                   cancel, faults, anomalies>>
    /\ UNCHANGED <<run, parked, ingest, request, scheduled>>

NextRequest == CreateJob

SpecRequest == InitRequest /\ [][NextRequest]_vars

----------------------------------------------------------------------------
(* A company configuration: CompanyConfigSerializer.validate_data_schema   *)
(* (apps/analytics/serializers.py).  A data_schema maps field names to     *)
(* entries; its items are visited in the order of the payload, taken here  *)
(* to be the order of required_fields.                                     *)

required_fields ==
    <<"in_dt", "in_trans_id", "in_product_id", "in_quantity", "in_price_total">>

valid_dtypes == {"date", "str", "float", "int"}

\* an entry: whether it has a source_column, and its dtype (NULL: no dtype)
Entries == [source_column : BOOLEAN, dtype : {NULL, "float", "decimal"}]

\* what the loop body finds wrong with one entry, "" if nothing
Problem(field_config) ==
    IF ~field_config.source_column THEN "missing source_column"
    ELSE IF field_config.dtype = NULL THEN "missing dtype"
    ELSE IF field_config.dtype \notin valid_dtypes THEN "invalid dtype"
    ELSE ""

\* validate_data_schema: the error raised, if any; missing fields are
\* reported together, the entries one at a time
validate_data_schema(value) ==
    LET missing_fields == SelectSeq(required_fields, LAMBDA f : f \notin DOMAIN value)
        faulty == SelectSeq(required_fields,
                            LAMBDA f : f \in DOMAIN value /\ Problem(value[f]) # "")
    IN  IF missing_fields # <<>>
        THEN [ok |-> FALSE, missing |-> missing_fields, entries |-> <<>>]
        ELSE IF faulty # <<>>
        THEN [ok |-> FALSE, missing |-> <<>>,
              entries |-> <<[field |-> faulty[1],
                             problem |-> Problem(value[faulty[1]])]>>]
        ELSE [ok |-> TRUE, missing |-> <<>>, entries |-> <<>>]

Schemata == UNION {[fields -> Entries] : fields \in SUBSET Range(required_fields)}

InitConfig ==
    /\ request \in [data_schema : Schemata]
    /\ response = [ok |-> TRUE, missing |-> <<>>, entries |-> <<>>]
    /\ pc = "request"
    /\ db_job = NoJob
    /\ job = NoJob
    /\ models_to_execute = <<>>
    /\ model_results = {}
    /\ transactions = 0
    /\ idx = 0
    /\ result = NoResult
    /\ retries = 0
    /\ log = <<>>
    /\ cancel = NoCancel
    /\ faults = 0
    /\ anomalies = 0
    /\ scheduled = <<>>
    /\ run = 1
    /\ parked = NULL
    /\ upload = NULL
    /\ csv = NULL
    /\ tx_table = <<>>

\* the serializer validates the data_schema of the payload
ValidateConfig ==
    /\ pc = "request"
    /\ response' = validate_data_schema(request.data_schema)
    /\ pc' = "responded"
    /\ UNCHANGED <<db_job, models_to_execute, job, model_results, transactions,
                   idx, result, retries, log, cancel, faults, anomalies>>
    /\ UNCHANGED <<run, parked, ingest, request, scheduled>>

NextConfig == ValidateConfig

SpecConfig == InitConfig /\ [][NextConfig]_vars

----------------------------------------------------------------------------
(* process_pipeline on a job stored with an empty models_to_execute, the   *)
(* default of the field                                                    *)

InitDefault ==
    /\ db_job = NewJob
    /\ models_to_execute = <<>>
    /\ job = NewJob
    /\ model_results = {}
    /\ transactions \in {0, MaxTransactions}
    /\ pc = "queued"
    /\ idx = 0
    /\ result = NoResult
    /\ retries = 0
    /\ log = <<>>
    /\ cancel = NoCancel
    /\ faults = 0
    /\ anomalies = 0
    /\ scheduled = <<>>
    /\ run = 1
    /\ parked = NULL
    /\ upload = NULL
    /\ csv = NULL
    /\ tx_table = <<>>
    /\ request = NULL
    /\ response = NULL

SpecDefault == InitDefault /\ [][Next]_vars

----------------------------------------------------------------------------
(* The read-only viewsets of apps/analytics/views.py: list, detail,         *)
(* by_company and by_type over uploads, transactions, datasets and          *)
(* analytics results of two companies                                       *)

Companies == {"company-a", "company-b"}

Kinds == {"upload", "transaction", "dataset", "result"}

\* the upload of a company, to which its other records belong
UploadOf(company) == IF company = "company-a" THEN "upload-a" ELSE "upload-b"

\* the rows stored: for each company its upload, and for each other kind one
\* row for every role restriction (visible_to_roles is only read for results)
Records ==
    [kind : Kinds, company : Companies, visible_to_roles : {{}, {"admin"}}]

Users == [is_staff : BOOLEAN, member_of : SUBSET Companies,
          role : {"admin", "analyst"}]

Params == [company_id : Companies \cup {NULL},
           upload_id : {UploadOf(c) : c \in Companies} \cup {NULL},
           result_type : {NULL, "kpi"}]

\* get_queryset: rows of the companies the user is a member of, narrowed by
\* the query parameters (the upload viewset reads none)
\* variant: a company_id parameter replaces the membership filter
QuerysetByParameter(user, kind, params) ==
    {r \in Records :
        /\ r.kind = kind
        /\ IF kind # "upload" /\ params.company_id # NULL
           THEN r.company = params.company_id
           ELSE r.company \in user.member_of
        /\ (kind # "upload" /\ params.upload_id # NULL) =>
              UploadOf(r.company) = params.upload_id}

get_queryset(user, kind, params) ==
    {r \in Records :
        /\ r.kind = kind
        /\ r.company \in user.member_of
        /\ (kind # "upload" /\ params.company_id # NULL) =>
              r.company = params.company_id
        /\ (kind # "upload" /\ params.upload_id # NULL) =>
              UploadOf(r.company) = params.upload_id}

\* AnalyticsResultViewSet.list keeps the results whose visible_to_roles is
\* empty or holds the user's role
RoleFiltered(user, rows) ==
    {r \in rows : r.visible_to_roles = {} \/ user.role \in r.visible_to_roles}

Answer(code, rows) == [code |-> code, rows |-> rows]

\* the answer to one read
Read(req) ==
    LET rows == get_queryset(req.user, req.kind, req.params)
    IN  CASE req.action = "list" ->
               Answer(200, IF req.kind = "result"
                           THEN RoleFiltered(req.user, rows) ELSE rows)
          [] req.action = "detail" ->
               IF req.target \in rows THEN Answer(200, {req.target})
               ELSE Answer(404, {})
          [] req.action = "by_company" ->
               IF req.params.company_id = NULL THEN Answer(400, {})
               ELSE IF req.params.company_id \notin req.user.member_of
               THEN Answer(403, {})
               ELSE Answer(200, {r \in Records :
                                    /\ r.kind = "upload"
                                    /\ r.company = req.params.company_id})
          [] req.action = "by_type" ->
               IF req.params.result_type = NULL THEN Answer(400, {})
               ELSE Answer(200, rows)

Reads ==
    {req \in [user : Users, kind : Kinds, params : Params, target : Records,
              action : {"list", "detail", "by_company", "by_type"}] :
        /\ req.target.kind = req.kind
        /\ req.action = "by_company" => req.kind = "upload"
        /\ req.action = "by_type" => req.kind = "result"
        /\ req.kind = "upload" => req.target.visible_to_roles = {}}

InitRead ==
    /\ request \in Reads
    /\ response = Answer(0, {})
    /\ pc = "request"
    /\ db_job = NoJob
    /\ job = NoJob
    /\ models_to_execute = <<>>
    /\ model_results = {}
    /\ transactions = 0
    /\ idx = 0
    /\ result = NoResult
    /\ retries = 0
    /\ log = <<>>
    /\ cancel = NoCancel
    /\ faults = 0
    /\ anomalies = 0
    /\ scheduled = <<>>
    /\ run = 1
    /\ parked = NULL
    /\ upload = NULL
    /\ csv = NULL
    /\ tx_table = <<>>

\* a GET on one of the viewsets
HandleRead ==
    /\ pc = "request"
    /\ response' = Read(request)
    /\ pc' = "responded"
    /\ UNCHANGED <<db_job, models_to_execute, job, model_results, transactions,
                   idx, result, retries, log, cancel, faults, anomalies>>
    /\ UNCHANGED <<run, parked, ingest, request, scheduled>>

NextRead == HandleRead

SpecRead == InitRead /\ [][NextRead]_vars

----------------------------------------------------------------------------
(* Properties *)

Ended == pc \in {"returned", "raised"}

\* the positions of log that belong to the attempt in progress
ThisAttempt == {i \in DOMAIN log : log[i].attempt = retries}

\* the models whose execution the attempt in progress has started, in order
Attempted == [i \in 1..Cardinality(ThisAttempt) |->
                 log[i + Len(log) - Cardinality(ThisAttempt)].model]

\* declared dependencies between catalog models: weekly is built from daily
Depends == {<<"weekly", "daily">>}

\* C1: the status of a job run by process_pipeline (retry included) changes
\* only along queued -> running -> {completed, failed, cancelled}; a terminal
\* status never changes again
C1_StatusStateMachine ==
    [][db_job.status' # db_job.status =>
          \/ db_job.status = "queued" /\ db_job.status' = "running"
          \/ db_job.status = "running" /\ is_complete(db_job')]_vars

\* C2: after each add_completed_model call that adds a new name to a job with
\* n >= 1 requested models, progress is floor(100 * k / n) for k completed names
C2_ProgressIsFloor ==
    job.models_completed # <<>> =>
        /\ job.progress =
              (100 * Len(job.models_completed)) \div Len(models_to_execute)
        /\ db_job.progress = job.progress
        /\ db_job.models_completed = job.models_completed

C2_Witness ==
    /\ pc = "method"
    /\ Len(models_to_execute) = 5
    /\ Len(job.models_completed) = 3
    /\ db_job.progress = 60

\* C3: within one run (retry included) the persisted progress never decreases
\* and stays within 0..100
C3_ProgressMonotone ==
    [][db_job.progress' >= db_job.progress /\ db_job.progress' \in 0..100]_vars

C3_Witness ==
    /\ retries = 1
    /\ pc = "loop"
    /\ db_job.progress = 50
    /\ \E i \in DOMAIN log : log[i].attempt = 0 /\ log[i].outcome = "ok"

\* C4: current_model is non-null only while the job is running; every
\* transition into completed, failed or cancelled leaves it null
C4_CurrentModelOnlyWhileRunning ==
    db_job.current_model # NULL => db_job.status = "running"

\* C5: when the execution of a model raises inside execute(), the remaining
\* models are still attempted in order, the failing execution adds nothing to
\* models_completed, and the task ends the job completed, not failed
C5_ModelFailureIsolated ==
    /\ \A i \in DOMAIN log :
          log[i].outcome = "raise" => log[i].after = log[i].before
    /\ (pc = "returned" /\ result.success) =>
          /\ Attempted = ModelsToRun(models_to_execute)
          /\ db_job.status = "completed"

C5_Witness ==
    /\ pc = "returned"
    /\ result.success
    /\ db_job.status = "completed"
    /\ Len(log) = 2
    /\ log[1].outcome = "raise"
    /\ log[2].outcome = "ok"
    /\ db_job.models_completed = <<log[2].model>>

\* C6: if M2 depends on M1 and M1 fails in a run, M2 is not executed and is
\* absent from models_completed, while a requested M3 that does not depend on
\* M1 is still executed
C6_DependentSkipped ==
    (pc = "returned" /\ result.success) =>
        \A i \in ThisAttempt : log[i].outcome = "raise" =>
            /\ \A j \in ThisAttempt :
                  <<log[j].model, log[i].model>> \notin Depends
            /\ \A m \in Range(db_job.models_completed) :
                  <<m, log[i].model>> \notin Depends
            /\ \A m \in Range(models_to_execute) :
                  <<m, log[i].model>> \notin Depends => m \in Range(Attempted)

\* C7: a run that requests a model whose dependency was not requested still
\* executes the dependency, and executes it first
C7_DependencyRunsFirst ==
    (pc = "returned" /\ result.success) =>
        \A d \in Depends : d[1] \in Range(models_to_execute) =>
            \E i, j \in DOMAIN Attempted :
                i < j /\ Attempted[i] = d[2] /\ Attempted[j] = d[1]

\* C8: once an external actor has set a running job cancelled between two
\* model executions, no further model is started and the job ends cancelled
C8_CancelStopsRun ==
    (cancel.requested /\ cancel.between) =>
        /\ Len(log) = cancel.logLen
        /\ Ended => db_job.status = "cancelled"

\* C9: there is at most one ModelResult per (job, model_name, result_type);
\* an insert that repeats a key is rejected and the stored row stays as it was
C9_OneResultPerKey ==
    /\ [](\A r1, r2 \in model_results :
             (r1.model_name = r2.model_name /\ r1.result_type = r2.result_type)
                 => r1 = r2)
    /\ [][model_results \subseteq model_results']_vars

C9_Witness ==
    \E i \in DOMAIN log :
        /\ log[i].outcome = "integrity"
        /\ \E r \in model_results : r.model_name = log[i].model /\ r.made < i

\* C10: a run that cannot load any transaction ends failed with an error
\* message, a traceback and completed_at; no model is executed, no ModelResult
\* is created and models_completed stays as it was
C10_LoadFailureFailsJob ==
    transactions = 0 =>
        /\ log = <<>>
        /\ model_results = {}
        /\ db_job.models_completed = <<>>
        /\ job.models_completed = <<>>
        /\ pc = "returned" =>
              /\ db_job.status = "failed"
              /\ db_job.error_message # ""
              /\ db_job.error_traceback # ""
              /\ db_job.completed_at # NULL

C10_Witness ==
    /\ transactions = 0
    /\ pc = "returned"
    /\ db_job.status = "failed"
    /\ db_job.error_message = "No transactions found"

\* C11: of two runs executing concurrently over the same upload, no step
\* creates, modifies or deletes a Transaction row, and a step of one run
\* leaves the other run's ProcessingJob row and ModelResult rows as they were:
\* the rows it adds are its own, and an insert of its own is rejected only
\* because of a row of its own
C11_RunsIsolated ==
    [][ /\ transactions' = transactions
        /\ parked' = parked =>
              /\ {r \in model_results' : r.job = parked.run}
                    = {r \in model_results : r.job = parked.run}
              /\ \A r \in model_results' \ model_results : r.job = run
              /\ \A i \in DOMAIN log' \ DOMAIN log :
                    log'[i].outcome = "integrity" =>
                       \E r \in model_results :
                          r.job = run /\ r.model_name = log'[i].model ]_vars

\* both runs have stored the result of the same model and the second to do so
\* has recorded it as completed
C11_Witness ==
    /\ \E r1, r2 \in model_results :
          /\ r1.job = run /\ r2.job = parked.run
          /\ r1.model_name = r2.model_name /\ r1.result_type = r2.result_type
    /\ db_job.models_completed # <<>>
    /\ parked.db_job.models_completed # <<>>

\* the calls of process() that reached _save_transactions and returned from it
SavingCalls == {i \in DOMAIN log : log[i].failed_at \in {NULL, "analytics"}}

\* the first row of the frame that carries the transaction id of row i
FirstWithId(i) ==
    CHOOSE j \in 1..i :
       /\ csv.rows[j].trans_id = csv.rows[i].trans_id
       /\ \A k \in 1..(j - 1) : csv.rows[k].trans_id # csv.rows[i].trans_id

\* C12: once _save_transactions has run, however many times, over the same
\* upload and rows, the upload holds exactly one Transaction per distinct
\* transaction_id of the input: the one built from the first row with that
\* id by the first call that saved
C12_OneTransactionPerId ==
    SavingCalls # {} =>
       /\ \A i \in DOMAIN csv.rows :
             Cardinality({k \in DOMAIN tx_table :
                 tx_table[k].transaction_id = Str(csv.rows[i].trans_id)}) = 1
       /\ Len(tx_table) = Cardinality({csv.rows[i].trans_id : i \in DOMAIN csv.rows})
       /\ \A k \in DOMAIN tx_table :
             /\ \A c \in SavingCalls : tx_table[k].call <= c
             /\ tx_table[k].src \in DOMAIN csv.rows
             /\ tx_table[k].src = FirstWithId(tx_table[k].src)
             /\ tx_table[k].quantity = csv.rows[tx_table[k].src].cantidad

\* the rows were ingested twice and two of them share a transaction id
\* that differs in quantity
C12_Witness ==
    /\ Cardinality(SavingCalls) >= 2
    /\ \E i, j \in DOMAIN csv.rows :
          /\ i < j
          /\ csv.rows[i].trans_id = csv.rows[j].trans_id
          /\ csv.rows[i].cantidad # csv.rows[j].cantidad

\* C13: after a successful process(), the transactions_created it returned is
\* the number of Transaction rows stored for the upload
C13_CreatedCountIsStored ==
    result.success => result.transactions_created = Len(tx_table)

\* C14: when a required source column is missing from the file that was
\* loaded, process() returns success = False, leaves the upload failed with
\* an error that names every missing column, and no Transaction row is stored
C14_MissingColumnFails ==
    ~(Range(RequiredCols) \subseteq csv.columns) =>
       /\ tx_table = <<>>
       /\ (pc = "finish" /\ log[Len(log)].failed_at # "load") =>
             /\ ~result.success
             /\ upload.status = "failed"
             /\ upload.error_message = result.error
             /\ Range(upload.error_message.names) = Range(RequiredCols) \ csv.columns

\* process() has just failed on a file that lacks two or more required columns
C14_Witness ==
    /\ pc = "finish"
    /\ log[Len(log)].failed_at = "columns"
    /\ Cardinality(Range(RequiredCols) \ csv.columns) >= 2
    /\ csv.rows # <<>>

\* C15 as stated: the stored unit_price is exactly total / quantity when
\* quantity > 0 and 0 when quantity = 0
C15_UnitPriceExact ==
    \A k \in DOMAIN tx_table :
       /\ tx_table[k].quantity > 0 =>
             tx_table[k].unit_price * tx_table[k].quantity = 100 * tx_table[k].total
       /\ tx_table[k].quantity = 0 => tx_table[k].unit_price = 0

\* C15: for every ingested row the stored unit_price is total / quantity
\* rounded to the two decimal places of the column when quantity > 0, and
\* exactly 0 when quantity = 0; no call of process() fails on the division
C15_UnitPriceRounded ==
    /\ \A k \in DOMAIN tx_table :
          LET t == tx_table[k].total
              q == tx_table[k].quantity
              u == tx_table[k].unit_price
              d == 100 * t - u * q
          IN  /\ q > 0 => 2 * d <= q /\ -2 * d <= q
              /\ q = 0 => u = 0
    /\ \A i \in DOMAIN log : log[i].failed_at # "rows"

\* a row with quantity 0 and a row whose quotient has more than two decimals
\* are stored
C15_Witness ==
    /\ \E k \in DOMAIN tx_table : tx_table[k].quantity = 0
    /\ \E k \in DOMAIN tx_table :
          /\ tx_table[k].quantity > 0
          /\ tx_table[k].unit_price * tx_table[k].quantity # 100 * tx_table[k].total

\* C16: an upload handled by process_csv_upload leaves pending only for
\* validating and enters processing only from validating
C16_ValidatingBeforeProcessing ==
    [][ /\ upload.status = "pending" =>
              upload'.status \in {"pending", "validating"}
        /\ (upload'.status = "processing" /\ upload.status # "processing") =>
              upload.status = "validating" ]_vars

\* C17: validate_models_to_execute returns the nine catalog names in catalog
\* order for an empty list, rejects a list with a name outside the catalog
\* with one error naming every such name of the list, and returns any other
\* list unchanged
C17_ModelsValidated ==
    (pc = "responded" /\ request.given) =>
       LET value == request.models_to_execute
           answer == response.models_to_execute
           unknown == Range(value) \ Range(MODEL_NAMES)
       IN  /\ value = <<>> => answer.ok /\ answer.value = MODEL_NAMES
           /\ unknown # {} =>
                 /\ ~answer.ok
                 /\ Range(answer.invalid) = unknown
           /\ (value # <<>> /\ unknown = {}) => answer.ok /\ answer.value = value

\* a list with two different unknown names and a catalog name was rejected
C17_Witness ==
    /\ pc = "responded"
    /\ request.given
    /\ Cardinality(Range(request.models_to_execute) \ Range(MODEL_NAMES)) >= 2
    /\ Range(request.models_to_execute) \cap Range(MODEL_NAMES) # {}
    /\ ~response.models_to_execute.ok

\* C20: a run request is accepted only when the upload it names exists and
\* has status completed; otherwise it is answered with a validation error
\* on upload_id and no ProcessingJob is created
C20_OnlyCompletedUploadsRun ==
    pc = "responded" =>
       /\ response.code = 201 =>
             request.upload_id = upload.id /\ upload.status = "completed"
       /\ (request.upload_id # upload.id \/ upload.status # "completed") =>
             /\ response.code = 400
             /\ ~response.upload_id.ok
             /\ db_job = NoJob
       /\ db_job # NoJob => response.code = 201

\* a request with a valid model list naming an existing upload that is still
\* processing was answered
C20_Witness ==
    /\ pc = "responded"
    /\ request.upload_id = upload.id
    /\ upload.status = "processing"
    /\ response.models_to_execute.ok
    /\ response.code = 400

\* C18: a run whose stored models_to_execute is empty executes the nine
\* catalog models in catalog order; each model that succeeded is recorded in
\* the stored models_completed, and the stored progress is 100 when all nine
\* succeeded
C18_DefaultRunCompletesCatalog ==
    (models_to_execute = <<>> /\ pc = "returned" /\ result.success) =>
       /\ Attempted = MODEL_NAMES
       /\ \A i \in ThisAttempt :
             log[i].outcome \notin {"raise", "integrity"} =>
                log[i].model \in Range(db_job.models_completed)
       /\ (\A i \in ThisAttempt : log[i].outcome \notin {"raise", "integrity"}) =>
             db_job.progress = 100

\* C19: a data_schema that validate_data_schema rejects is answered with one
\* error that lists every missing required field and every malformed entry
C19_AllProblemsListed ==
    pc = "responded" =>
       LET value == request.data_schema
           missing == {f \in Range(required_fields) : f \notin DOMAIN value}
           malformed == {f \in DOMAIN value :
                            \/ ~value[f].source_column
                            \/ value[f].dtype = NULL
                            \/ value[f].dtype \notin {"date", "str", "float", "int"}}
       IN  /\ response.ok <=> (missing = {} /\ malformed = {})
           /\ ~response.ok =>
                 /\ Range(response.missing) = missing
                 /\ {e.field : e \in Range(response.entries)} = malformed

\* C21: a user who is neither staff nor superuser and is not a member of a
\* company receives no upload, transaction, dataset or analytics result of
\* that company from a list, by_company, by_type or detail read, whatever the
\* query parameters; a detail read of such a record answers 404
C21_TenantIsolation ==
    (pc = "responded" /\ ~request.user.is_staff) =>
       /\ \A r \in response.rows : r.company \in request.user.member_of
       /\ (/\ request.action = "detail"
           /\ request.target.company \notin request.user.member_of) =>
             response.code = 404

\* a non-member asked for another company's rows by company_id and by
\* upload_id and was handed none
C21_Witness ==
    /\ pc = "responded"
    /\ ~request.user.is_staff
    /\ request.user.member_of = {"company-a"}
    /\ request.action = "list"
    /\ request.kind = "transaction"
    /\ request.params.company_id = "company-b"
    /\ request.params.upload_id = "upload-b"
    /\ response = Answer(200, {})

\* C22: every name in a job's stored models_completed has at least one
\* ModelResult, filters or attrs, stored for that job
C22_CompletedHasResult ==
    \A m \in Range(db_job.models_completed) :
       \E r \in model_results : r.job = run /\ r.model_name = m

\* the position of a model name in the catalog
CatalogIndex(m) == CHOOSE i \in DOMAIN MODEL_NAMES : MODEL_NAMES[i] = m

\* C23: a run executes the requested models in the catalog's declared order,
\* whatever their order in the request
C23_CatalogOrder ==
    \A i, j \in DOMAIN Attempted :
       i < j => CatalogIndex(Attempted[i]) <= CatalogIndex(Attempted[j])

\* C24: process_csv_upload is retried at most 3 times, and the delays before
\* the first, second and third retry are 4, 16 and 64 seconds
C24_RetryDelays ==
    /\ Len(scheduled) <= 3
    /\ \A i \in DOMAIN scheduled : scheduled[i] = <<4, 16, 64>>[i]

C26_FailureRetriedOnce ==
    (Ended /\ db_job.status = "failed") => Len(scheduled) = 1

\* C27: the stored models_completed of a job holds no name twice and only
\* names of the job's models_to_execute
C27_CompletedWithinRequested ==
    /\ \A i, j \in DOMAIN db_job.models_completed :
          db_job.models_completed[i] = db_job.models_completed[j] => i = j
    /\ Range(db_job.models_completed) \subseteq Range(models_to_execute)

\* a list that names one model twice was run to the end, and the model is
\* stored as completed
C27_Witness ==
    /\ pc = "returned"
    /\ Len(models_to_execute) = 2
    /\ models_to_execute[1] = models_to_execute[2]
    /\ Len(log) >= 2
    /\ db_job.models_completed = <<models_to_execute[1]>>

\* C28: when process() has ended with the upload failed, no Transaction row
\* of the upload was stored by that call
C28_FailedLeavesNoRows ==
    (pc = "finish" /\ upload.status = "failed") =>
       \A k \in DOMAIN tx_table : tx_table[k].call # Len(log)

\* C29: when a run has finished and execute_model succeeded for every
\* requested model, the stored progress is 100 and the stored
\* models_completed holds every requested name
C29_AllSucceededIsComplete ==
    (/\ pc = "returned"
     /\ result.success
     /\ \A i \in DOMAIN log : log[i].outcome # "raise") =>
       /\ db_job.progress = 100
       /\ Range(models_to_execute) \subseteq Range(db_job.models_completed)

\* C30: at the end of an attempt of process_csv_upload that found the upload
\* and created its tracking job, the job and the upload are both completed
\* or both failed
C30_JobMatchesUpload ==
    (/\ pc \in {"returned", "raised"} \/ (pc = "queued" /\ retries > 0)
     /\ upload.status # NULL
     /\ db_job.status # NULL) =>
       /\ db_job.status = upload.status
       /\ upload.status \in {"completed", "failed"}

====
